---- MODULE Spec2Model ----
(***************************************************************************)
(* Session generator bot (improved_session_bot.py): the rate limiter, the  *)
(* conversation handlers of the Telethon, Pyrogram and revocation flows,   *)
(* and the client handles they create and disconnect.                      *)
(*                                                                         *)
(* Seven specifications share the definitions translated from the source: *)
(*   SpecRate     RateLimiter.increment_attempts called by one process,    *)
(*                with the clock advancing and the Redis store failing     *)
(*                at will;                                                 *)
(*   SpecWorkers  two bot processes sharing the Redis store, each running  *)
(*                increment_attempts as its two store operations (GET,     *)
(*                then SETEX);                                             *)
(*   Spec         one process dispatching updates to the three             *)
(*                ConversationHandlers built in main().                    *)
(*   SpecMenu     the session menu of list_and_revoke_sessions, built for  *)
(*                every list of authorizations the backend can return.    *)
(*   SpecPure     the validators of InputValidator and the success message *)
(*                applied to every string of bounded sets;                 *)
(*   SpecMain     the handlers in the order main() registers them with the *)
(*                Application, for two users;                              *)
(*   SpecUsers    the Telethon flow and /cancel with two users taking      *)
(*                turns.                                                   *)
(***************************************************************************)
EXTENDS Integers, Sequences, FiniteSets, TLC

\* ------------------------------------------------------------------ bounds
TickLen == 1000
MaxTicks == 4
MaxCalls == 7
MaxFaults == 1
MaxWorkerCalls == 7
MaxHandles == 2
MaxTurns == 5
MaxAuths == 11
MaxIdLen == 7
MaxOtpLen == 6
HashSlack == 1
MaxPhoneDigits == 16
MaxSessionLen == 6

\* ------------------------------------------------------- program constants
RATE_LIMIT_WINDOW == 3600
MAX_ATTEMPTS_PER_HOUR == 5
\* result.authorizations[:10]
MenuLimit == 10
\* len(str(api_id)) < 6
ApiIdMinDigits == 6
\* ^[a-f0-9]{32}$
HashLen == 32
\* ^\+?[1-9]\d{1,14}$
PhoneMinTail == 1
PhoneMaxTail == 14
\* ^\d{5}$
OtpLen == 5

Users == {1, 2}
\* the users whose attempts SpecRate follows through whole windows
RateUsers == {1}
\* the users whose turns Spec follows
FlowUsers == {1}
\* the bot processes of SpecWorkers
Workers == {1, 2}
\* the ConversationHandlers of main(), in the order they are added
Convs == {"telethon", "pyrogram", "revoke"}
ConvOrder == <<"telethon", "pyrogram", "revoke">>

NoRec == [none |-> TRUE]

VARIABLES
    now,                \* time.time(), in seconds
    redis_client,       \* TRUE iff REDIS_URL is set (a Redis client exists)
    redis,              \* Redis keys rate_limit:<user>: NoRec or [val, expire]
    rate_limit_storage, \* in-process dict: NoRec or [attempts, reset_time]
    log,                \* history: per user, the attempts made so far
    rl_last,            \* history: the last increment_attempts call
    faults,             \* history: store operations that have failed so far
    wpc,                \* per worker process: "idle", or "write" between
                        \* the GET and the SETEX of increment_attempts
    wuser,              \* per worker: the user of the call in progress
    wcur,               \* per worker: current_attempts, as read
    granted,            \* history: per user, attempts answered True
    conv,               \* per user and ConversationHandler: its state
    user_data,          \* per user: context.user_data
    handles,            \* the client objects created so far
    gate,               \* history: per user and flow, what rate_limit_check
                        \* answered at the last entry of the flow
    turn,               \* history: the last update handled
    turns,              \* history: the number of updates handled
    authorizations,     \* result.authorizations of GetAuthorizationsRequest
    menu,               \* the session list and keyboard built from it
    fn,                 \* SpecPure: the function under study
    arg,                \* SpecPure: the string it is given
    out                 \* SpecPure: what it returns or raises

storeVars == <<now, redis_client, redis, rate_limit_storage>>
rateHist == <<log, rl_last, faults>>
workerVars == <<wpc, wuser, wcur, granted>>
flowVars == <<conv, user_data, handles, gate, turn, turns>>
menuVars == <<authorizations, menu>>
pureVars == <<fn, arg, out>>
vars == <<storeVars, rateHist, workerVars, flowVars, menuVars, pureVars>>

\* ============================================================ RateLimiter

\* redis_client.get(key): a key set by SETEX lives for its TTL
RedisGet(rds, u, t) ==
    IF rds[u] = NoRec \/ t >= rds[u].expire THEN 0 ELSE rds[u].val

\* redis_client.setex(key, RATE_LIMIT_WINDOW, value)
RedisSetex(rds, u, t, v) ==
    [rds EXCEPT ![u] = [val |-> v, expire |-> t + RATE_LIMIT_WINDOW]]

\* get_user_attempts without the lazy reset of an expired record
get_user_attempts_noreset(u, rc, rds, mem, t, rfail) ==
    IF rc /\ ~rfail
    THEN [ret |-> RedisGet(rds, u, t), mem |-> mem]
    ELSE [ret |-> IF mem[u] = NoRec THEN 0 ELSE mem[u].attempts, mem |-> mem]

\* RateLimiter.get_user_attempts; rfail: the GET raises.
\* Returns the count read and the in-process dict as the call leaves it.
get_user_attempts(u, rc, rds, mem, t, rfail) ==
    IF rc /\ ~rfail
    THEN [ret |-> RedisGet(rds, u, t), mem |-> mem]
    ELSE IF mem[u] # NoRec /\ t > mem[u].reset_time
         THEN [ret |-> 0,
               mem |-> [mem EXCEPT ![u] =
                          [attempts |-> 0, reset_time |-> t + RATE_LIMIT_WINDOW]]]
         ELSE [ret |-> IF mem[u] = NoRec THEN 0 ELSE mem[u].attempts,
               mem |-> mem]

\* the ceiling test with > for >=
AtCeiling_gt(current_attempts) == current_attempts > MAX_ATTEMPTS_PER_HOUR

\* the ceiling test of increment_attempts
AtCeiling(current_attempts) == current_attempts >= MAX_ATTEMPTS_PER_HOUR

\* RateLimiter.increment_attempts after the read; wfail: the SETEX raises.
increment_write(u, current_attempts, rc, rds, mem, t, wfail) ==
    IF AtCeiling(current_attempts)
    THEN [ret |-> FALSE, redis |-> rds, mem |-> mem]
    ELSE LET new_attempts == current_attempts + 1 IN
         IF rc /\ ~wfail
         THEN [ret |-> TRUE, redis |-> RedisSetex(rds, u, t, new_attempts),
               mem |-> mem]
         ELSE [ret |-> TRUE, redis |-> rds,
               mem |-> [mem EXCEPT ![u] =
                          [attempts |-> new_attempts,
                           reset_time |-> IF mem[u] = NoRec
                                          THEN t + RATE_LIMIT_WINDOW
                                          ELSE mem[u].reset_time]]]

\* RateLimiter.increment_attempts: the read, then the test and the write
increment_attempts(u, rc, rds, mem, t, rfail, wfail) ==
    LET g == get_user_attempts(u, rc, rds, mem, t, rfail)
        w == increment_write(u, g.ret, rc, rds, g.mem, t, wfail)
    IN  [ret |-> w.ret, read |-> g.ret, redis |-> w.redis, mem |-> w.mem]

\* ====================================================== context and handles

\* context.user_data: the keys set other than the clients, and the two
\* client objects it holds (0: the key is absent); clients are numbered by
\* their place in handles
EmptyData == [keys |-> {}, client |-> 0, pyro_client |-> 0]

NoTurn ==
    [u |-> 0, conv |-> "none", handler |-> "none", ret |-> "None",
     msgs |-> << >>, calls |-> {}, raised |-> FALSE, created |-> 0,
     gate |-> "none", from |-> "END", input |-> "none", outcome |-> "none",
     kept |-> TRUE]

\* the function has not been called
NoOut == [called |-> FALSE, ok |-> FALSE, val |-> "not called"]

\* no list has been sent
NoMenu == [shown |-> FALSE, lines |-> << >>, keyboard |-> << >>]

\* ============================================================== SpecRate

NoCall ==
    [u |-> 0, read |-> 0, memread |-> 0, allowed |-> FALSE, rfail |-> FALSE,
     wfail |-> FALSE, wrote_redis |-> FALSE, wrote_mem |-> FALSE]

\* the process has just started: nothing stored, nothing called
StoreInit ==
    /\ now = 0
    /\ redis = [u \in Users |-> NoRec]
    /\ rate_limit_storage = [u \in Users |-> NoRec]

RateHistInit ==
    /\ log = [u \in Users |-> << >>]
    /\ rl_last = NoCall
    /\ faults = 0

WorkersIdle ==
    /\ wpc = [w \in Workers |-> "idle"]
    /\ wuser = [w \in Workers |-> 0]
    /\ wcur = [w \in Workers |-> 0]
    /\ granted = [u \in Users |-> 0]

FlowsIdle ==
    /\ conv = [u \in Users |-> [c \in Convs |-> "END"]]
    /\ user_data = [u \in Users |-> EmptyData]
    /\ handles = << >>
    /\ gate = [u \in Users |-> [c \in Convs |-> "none"]]
    /\ turn = NoTurn
    /\ turns = 0

MenuIdle ==
    /\ authorizations = << >>
    /\ menu = NoMenu

PureIdle ==
    /\ fn = "none"
    /\ arg = << >>
    /\ out = NoOut

RateInit ==
    /\ StoreInit
    /\ redis_client \in BOOLEAN
    /\ RateHistInit
    /\ WorkersIdle
    /\ FlowsIdle
    /\ MenuIdle
    /\ PureIdle

\* the clock advances
Tick ==
    /\ now < MaxTicks * TickLen
    /\ now' = now + TickLen
    /\ UNCHANGED <<redis_client, redis, rate_limit_storage>>
    /\ UNCHANGED <<rateHist, workerVars, flowVars, menuVars, pureVars>>

\* one call of increment_attempts(u); a store operation can fail only
\* where a Redis client exists
Attempt(u, rfail, wfail) ==
    /\ Len(log[u]) < MaxCalls
    /\ (rfail \/ wfail) => redis_client /\ faults < MaxFaults
    /\ faults' = IF rfail \/ wfail THEN faults + 1 ELSE faults
    /\ LET r == increment_attempts(u, redis_client, redis, rate_limit_storage,
                                   now, rfail, wfail)
       IN  /\ redis' = r.redis
           /\ rate_limit_storage' = r.mem
           /\ log' = [log EXCEPT ![u] =
                        Append(@, [t |-> now, allowed |-> r.ret])]
           /\ wfail => ~AtCeiling(r.read)
           /\ rl_last' =
                [u |-> u, read |-> r.read, allowed |-> r.ret,
                 memread |-> get_user_attempts(u, redis_client, redis,
                                 rate_limit_storage, now, TRUE).ret,
                 rfail |-> rfail, wfail |-> wfail,
                 wrote_redis |-> r.redis # redis,
                 wrote_mem |-> r.mem # rate_limit_storage]
    /\ UNCHANGED <<now, redis_client, workerVars, flowVars, menuVars, pureVars>>

RateNext ==
    \/ Tick
    \/ \E u \in RateUsers, rfail \in BOOLEAN, wfail \in BOOLEAN :
          Attempt(u, rfail, wfail)

SpecRate == RateInit /\ [][RateNext]_vars

\* =========================================================== SpecWorkers
\* Two bot processes with the same REDIS_URL. Each runs increment_attempts
\* for the update it handles; the GET of get_user_attempts and the SETEX of
\* increment_attempts are two round trips to the store, so the other
\* process can run between them. The store works and the clock stands
\* still: every call falls in one window.


WorkersInit ==
    /\ StoreInit
    /\ redis_client = TRUE
    /\ RateHistInit
    /\ WorkersIdle
    /\ FlowsIdle
    /\ MenuIdle
    /\ PureIdle

CallsMade == granted[1] + granted[2]

\* increment_attempts, line 106: current_attempts = get_user_attempts(u)
W_Read(w, u) ==
    /\ wpc[w] = "idle"
    /\ CallsMade < MaxWorkerCalls
    /\ LET g == get_user_attempts(u, redis_client, redis, rate_limit_storage,
                                  now, FALSE)
       IN  /\ wcur' = [wcur EXCEPT ![w] = g.ret]
           /\ rate_limit_storage' = g.mem
    /\ wuser' = [wuser EXCEPT ![w] = u]
    /\ wpc' = [wpc EXCEPT ![w] = "write"]
    /\ UNCHANGED <<now, redis_client, redis, granted, rateHist, flowVars, menuVars, pureVars>>

\* increment_attempts, lines 108-125: the test, the SETEX and the answer
W_Write(w) ==
    /\ wpc[w] = "write"
    /\ LET r == increment_write(wuser[w], wcur[w], redis_client, redis,
                                rate_limit_storage, now, FALSE)
       IN  /\ redis' = r.redis
           /\ rate_limit_storage' = r.mem
           /\ granted' = [granted EXCEPT ![wuser[w]] =
                            IF r.ret THEN @ + 1 ELSE @]
    /\ wpc' = [wpc EXCEPT ![w] = "idle"]
    /\ UNCHANGED <<now, redis_client, wuser, wcur, rateHist, flowVars, menuVars, pureVars>>

WorkersNext ==
    \/ \E w \in Workers, u \in Users : W_Read(w, u)
    \/ \E w \in Workers : W_Write(w)

SpecWorkers == WorkersInit /\ [][WorkersNext]_vars

\* C4 (as claimed): with two workers on the shared store no update is lost:
\* the stored counter of a user equals the number of attempts allowed to
\* that user in the window, and that number never exceeds 5.
C4_NoLostUpdate ==
    \A u \in Users :
      /\ RedisGet(redis, u, now) = granted[u]
      /\ granted[u] <= 5

\* ------------------------------------------------ claims on the rate limiter

\* The attempt that opened the fixed window attempt i of lg falls in: the
\* first attempt opens a window, and so does each attempt made later than
\* RATE_LIMIT_WINDOW after the opening of the window before it.
RECURSIVE WinStart(_, _)
WinStart(lg, i) ==
    IF i <= 1 THEN 1
    ELSE LET s == WinStart(lg, i - 1) IN
         IF lg[i].t > lg[s].t + RATE_LIMIT_WINDOW THEN i ELSE s

\* what a read of u's counter returns now (the store working)
CounterRead(u) ==
    get_user_attempts(u, redis_client, redis, rate_limit_storage, now, FALSE).ret

\* C3: with the in-process store and one worker, an attempt is allowed
\* exactly when fewer than 5 attempts precede it in its window (so the
\* first 5 of a window are allowed and the 6th is denied), the first
\* attempt after the reset timestamp has passed opens a new window and is
\* allowed, and the record then holds the number of allowed attempts of the
\* window (1 after the opening attempt) and a reset timestamp one window
\* after the opening attempt.
C3_InProcessWindow ==
    ~redis_client =>
      \A u \in RateUsers :
        LET lg == log[u]
            n == Len(lg)
            s == WinStart(lg, n)
        IN  /\ \A i \in 1..n :
                 lg[i].allowed <=> (i - WinStart(lg, i) < 5)
            /\ n > 0 =>
                 /\ rate_limit_storage[u] # NoRec
                 /\ rate_limit_storage[u].reset_time = lg[s].t + 3600
                 /\ rate_limit_storage[u].attempts =
                      (IF n - s + 1 < 5 THEN n - s + 1 ELSE 5)

\* C3 witness: five attempts allowed, the sixth denied, and a seventh made
\* after the window has passed allowed, leaving counter 1.
C3_Witness ==
    /\ ~redis_client
    /\ Len(log[1]) = 7
    /\ \A i \in 1..5 : log[1][i].allowed
    /\ ~log[1][6].allowed
    /\ log[1][6].t <= log[1][1].t + 3600
    /\ log[1][7].t > log[1][1].t + 3600
    /\ log[1][7].allowed
    /\ rate_limit_storage[1].attempts = 1

\* C8: every stored counter, in the external store and in the in-process
\* map, is at most 5, and an attempt whose read returned 5 is denied and
\* writes to neither store.
C8_CounterAtMostCeiling ==
    /\ \A u \in Users :
         /\ redis[u] # NoRec => redis[u].val <= 5
         /\ rate_limit_storage[u] # NoRec => rate_limit_storage[u].attempts <= 5
    /\ (rl_last.u # 0 /\ rl_last.read >= 5) =>
         /\ ~rl_last.allowed
         /\ ~rl_last.wrote_redis
         /\ ~rl_last.wrote_mem

\* C8 witness: an attempt read the counter at 5 from the external store.
C8_Witness ==
    /\ redis_client
    /\ rl_last.u = 1
    /\ rl_last.read = 5
    /\ ~rl_last.allowed
    /\ redis[1].val = 5

\* C9 (as claimed): when a store operation fails during an attempt, the
\* read and the update of that call are both made on the in-process map:
\* the count used is the in-process count and the external store is not
\* written.
C9_FallbackForWholeCall ==
    (rl_last.u # 0 /\ (rl_last.rfail \/ rl_last.wfail)) =>
       /\ rl_last.read = rl_last.memread
       /\ ~rl_last.wrote_redis
       /\ rl_last.allowed => rl_last.wrote_mem

\* C10 (as claimed): with either store (no operation having failed), once
\* more than 3600 s have passed since the first counted attempt of the
\* window, the counter reads zero, whatever attempts were made later in
\* the window.
C10_FixedWindowEitherStore ==
    \A u \in RateUsers :
      LET lg == log[u]
          s == WinStart(lg, Len(lg))
      IN  (faults = 0 /\ Len(lg) > 0 /\ now > lg[s].t + 3600) =>
             CounterRead(u) = 0

\* ================================================================== flows
\* The conversation machine the handlers define. Each handler is an
\* operator from the user's context, the client objects and its inputs (the
\* verdict of the validator on the text, what the backend answers, whether
\* disconnect() raises) to what the turn leaves: the state returned, the
\* messages sent, the context, the clients and the backend calls made.
\* An action per handler applies it where the ConversationHandler tables of
\* main() route the update; the entry points are invoked with the callback
\* query, as button_handler invokes them. The process runs without
\* REDIS_URL (redis_client is None), so the rate limiter reads and writes
\* rate_limit_storage.

SendCodeOutcomes ==
    {"ok", "PhoneNumberInvalid", "ApiIdInvalid", "PhoneMigrate", "FloodWait",
     "ConnectError", "Unexpected"}
SignInOutcomes ==
    {"ok", "SessionPasswordNeeded", "PhoneCodeInvalid", "PhoneCodeExpired",
     "Unexpected"}
PasswordOutcomes == {"ok", "Unexpected"}
ListOutcomes == {"empty", "some", "Unexpected"}
RevokeOutcomes == {"ok", "Unexpected"}
Buttons ==
    {"telethon", "pyrogram", "revoke", "help", "cancel_revoke", "revoke_hash"}

\* a client that has been disconnected serves no request
Answers(hs, h, outcomes) ==
    IF h # 0 /\ hs[h].disconnects > 0 THEN {"Unexpected"} ELSE outcomes

Res(ret, msgs, ud, hs, calls) ==
    [ret |-> ret, msgs |-> msgs, ud |-> ud, hs |-> hs, calls |-> calls,
     raised |-> FALSE]

\* update.message.reply_text(m) / query.edit_message_text(m)
Say(r, m) == [r EXCEPT !.msgs = Append(@, m)]

\* TelegramClient(...) / PyroClient(...): a new client object
\* (connected: connect() has succeeded; gate: history, what the rate limiter
\* answered at the entry of the flow that creates the client; code_sent,
\* password_needed: history, the code request on this client succeeded, a
\* sign-in on it answered that the password is needed)
NewClient(hs, u, c, lib) ==
    Append(hs, [owner |-> u, conv |-> c, lib |-> lib, disconnects |-> 0,
                connected |-> TRUE, gate |-> "none", signed_in |-> FALSE,
                code_sent |-> FALSE, password_needed |-> FALSE])

\* connect() raised
ConnectFailed(hs, h) == [hs EXCEPT ![h].connected = FALSE]

\* safe_disconnect(client, update): disconnect() is called; when it raises
\* and an update was passed, the warning is sent
safe_disconnect(r, h, with_update, dfail) ==
    [r EXCEPT !.hs = [@ EXCEPT ![h].disconnects = @ + 1],
              !.calls = @ \cup {"disconnect"},
              !.msgs = IF dfail /\ with_update
                       THEN Append(@, "cleanup_warning") ELSE @]

\* telethon_api_id
telethon_api_id(ud, hs, valid) ==
    IF valid
    THEN Res("API_HASH", <<"api_id_saved">>,
             [ud EXCEPT !.keys = @ \cup {"api_id"}], hs, {})
    ELSE Res("API_ID", <<"invalid_api_id">>, ud, hs, {})

\* telethon_api_hash
telethon_api_hash(ud, hs, valid) ==
    IF valid
    THEN Res("TELETHON_PHONE", <<"api_hash_saved">>,
             [ud EXCEPT !.keys = @ \cup {"api_hash"}], hs, {})
    ELSE Res("API_HASH", <<"invalid_api_hash">>, ud, hs, {})

\* telethon_phone, for user u in ConversationHandler c
telethon_phone(u, c, ud, hs, valid, outcome, dfail) ==
    IF ~valid
    THEN Res("TELETHON_PHONE", <<"invalid_phone">>, ud, hs, {})
    ELSE IF ~({"api_id", "api_hash"} \subseteq ud.keys)
    THEN \* KeyError at line 297 or 298, caught at line 338
         Res("END", <<"unexpected_error">>, ud, hs, {})
    ELSE
      LET h == Len(hs) + 1
          ud1 == [ud EXCEPT !.keys = @ \cup {"phone"}, !.client = h]
          hs1 == NewClient(hs, u, c, "telethon")
          sent == Res("TELETHON_PHONE", << >>, ud1, hs1, {"connect", "send_code"})
      IN  CASE outcome = "ok" ->
                 [Say(sent, "otp_sent") EXCEPT
                    !.ret = "TELETHON_OTP",
                    !.ud = [ud1 EXCEPT !.keys = @ \cup {"phone_hash"}],
                    !.hs = [@ EXCEPT ![h].code_sent = TRUE]]
            [] outcome = "PhoneNumberInvalid" ->
                 Say(safe_disconnect(sent, h, TRUE, dfail), "phone_rejected")
            [] outcome = "ApiIdInvalid" ->
                 [Say(safe_disconnect(sent, h, TRUE, dfail), "invalid_credentials")
                    EXCEPT !.ret = "END"]
            [] outcome = "PhoneMigrate" ->
                 [Say(safe_disconnect(sent, h, TRUE, dfail), "migrated")
                    EXCEPT !.ret = "END"]
            [] outcome = "FloodWait" ->
                 [Say(safe_disconnect(sent, h, TRUE, dfail), "flood_wait")
                    EXCEPT !.ret = "END"]
            [] outcome = "ConnectError" ->
                 \* connect() raised: caught at line 338, no disconnect
                 Res("END", <<"unexpected_error">>, ud1, ConnectFailed(hs1, h),
                     {"connect"})
            [] OTHER ->
                 \* any other exception of send_code_request: line 338
                 [Say(sent, "unexpected_error") EXCEPT !.ret = "END"]

\* the success message with the session string, then safe_disconnect(client)
Success(r, h, lib) ==
    safe_disconnect(
        [Say(r, "session_" \o lib) EXCEPT !.ret = "END",
                                          !.calls = @ \cup {"export"},
                                          !.hs = [@ EXCEPT ![h].signed_in = TRUE]],
        h, FALSE, FALSE)

\* telethon_otp going on to the session whatever sign_in answers
telethon_otp_anyanswer(ud, hs, valid, outcome, dfail) ==
    LET client == ud.client
        tried == Res("TELETHON_OTP", << >>, ud, hs, {"sign_in"})
    IN  IF client = 0
        THEN Res("END", <<"session_expired">>, ud, hs, {})
        ELSE IF ~valid
        THEN Res("TELETHON_OTP", <<"invalid_otp">>, ud, hs, {})
        ELSE Success(tried, client, "telethon")

\* telethon_otp
telethon_otp(ud, hs, valid, outcome, dfail) ==
    LET client == ud.client
        tried == Res("TELETHON_OTP", << >>, ud, hs, {"sign_in"})
    IN  IF client = 0
        THEN Res("END", <<"session_expired">>, ud, hs, {})
        ELSE IF ~valid
        THEN Res("TELETHON_OTP", <<"invalid_otp">>, ud, hs, {})
        ELSE IF ~({"phone", "phone_hash"} \subseteq ud.keys)
        THEN \* KeyError at line 354, caught at line 384
             [Say(safe_disconnect(Res("END", << >>, ud, hs, {}),
                                  client, TRUE, dfail),
                  "unexpected_error") EXCEPT !.ret = "END"]
        ELSE CASE outcome = "ok" -> Success(tried, client, "telethon")
               [] outcome = "SessionPasswordNeeded" ->
                    [Say(tried, "password_needed") EXCEPT
                       !.ret = "TELETHON_2FA",
                       !.hs = [@ EXCEPT ![client].password_needed = TRUE]]
               [] outcome = "PhoneCodeInvalid" -> Say(tried, "wrong_otp")
               [] outcome = "PhoneCodeExpired" ->
                    [Say(safe_disconnect(tried, client, TRUE, dfail), "otp_expired")
                       EXCEPT !.ret = "END"]
               [] OTHER ->
                    [Say(safe_disconnect(tried, client, TRUE, dfail),
                         "unexpected_error") EXCEPT !.ret = "END"]

\* telethon_2fa taking the branch of line 415 whatever sign_in answers
telethon_2fa_nosession(ud, hs, outcome, dfail) ==
    LET client == ud.client
        tried == Res("TELETHON_2FA", << >>, ud, hs, {"check_password"})
    IN  IF client = 0
        THEN Res("END", <<"session_expired">>, ud, hs, {})
        ELSE [Say(safe_disconnect(tried, client, TRUE, dfail), "auth_failed")
                EXCEPT !.ret = "END"]

\* telethon_2fa
telethon_2fa(ud, hs, outcome, dfail) ==
    LET client == ud.client
        tried == Res("TELETHON_2FA", << >>, ud, hs, {"check_password"})
    IN  IF client = 0
        THEN Res("END", <<"session_expired">>, ud, hs, {})
        ELSE IF outcome = "ok"
        THEN Success(tried, client, "telethon")
        ELSE [Say(safe_disconnect(tried, client, TRUE, dfail), "auth_failed")
                EXCEPT !.ret = "END"]

\* pyro_api_id
pyro_api_id(ud, hs, valid) ==
    IF valid
    THEN Res("PYRO_API_HASH", <<"api_id_saved">>,
             [ud EXCEPT !.keys = @ \cup {"pyro_api_id"}], hs, {})
    ELSE Res("PYRO_API_ID", <<"invalid_api_id">>, ud, hs, {})

\* pyro_api_hash
pyro_api_hash(ud, hs, valid) ==
    IF valid
    THEN Res("PYRO_PHONE", <<"api_hash_saved">>,
             [ud EXCEPT !.keys = @ \cup {"pyro_api_hash"}], hs, {})
    ELSE Res("PYRO_API_HASH", <<"invalid_api_hash">>, ud, hs, {})

\* pyro_phone
pyro_phone(u, c, ud, hs, valid, outcome, dfail) ==
    IF ~valid
    THEN Res("PYRO_PHONE", <<"invalid_phone">>, ud, hs, {})
    ELSE
      LET h == Len(hs) + 1
          ud0 == [ud EXCEPT !.keys = @ \cup {"pyro_phone"}]
          ud1 == [ud0 EXCEPT !.pyro_client = h]
          hs1 == NewClient(hs, u, c, "pyrogram")
          sent == Res("PYRO_PHONE", << >>, ud1, hs1, {"connect", "send_code"})
      IN  IF ~({"pyro_api_id", "pyro_api_hash"} \subseteq ud.keys)
          THEN \* KeyError at line 467 or 468, caught at line 497
               Res("END", <<"unexpected_error">>, ud0, hs, {})
          ELSE
          CASE outcome = "ok" ->
                 [Say(sent, "otp_sent") EXCEPT
                    !.ret = "PYRO_OTP",
                    !.ud = [ud1 EXCEPT !.keys = @ \cup {"phone_code_hash"}],
                    !.hs = [@ EXCEPT ![h].code_sent = TRUE]]
            [] outcome = "PhoneNumberInvalid" ->
                 Say(safe_disconnect(sent, h, TRUE, dfail), "phone_rejected")
            [] outcome = "ApiIdInvalid" ->
                 [Say(safe_disconnect(sent, h, TRUE, dfail), "invalid_credentials")
                    EXCEPT !.ret = "END"]
            [] outcome = "ConnectError" ->
                 Res("END", <<"unexpected_error">>, ud1, ConnectFailed(hs1, h),
                     {"connect"})
            [] OTHER ->
                 \* PhoneMigrate, FloodWait and the rest: caught at line 497
                 [Say(sent, "unexpected_error") EXCEPT !.ret = "END"]

\* pyro_otp
pyro_otp(ud, hs, valid, outcome, dfail) ==
    LET app == ud.pyro_client
        tried == Res("PYRO_OTP", << >>, ud, hs, {"sign_in"})
    IN  IF app = 0
        THEN Res("END", <<"session_expired">>, ud, hs, {})
        ELSE IF ~valid
        THEN Res("PYRO_OTP", <<"invalid_otp">>, ud, hs, {})
        ELSE IF ~({"pyro_phone", "phone_code_hash"} \subseteq ud.keys)
        THEN [Say(safe_disconnect(Res("END", << >>, ud, hs, {}),
                                  app, TRUE, dfail),
                  "otp_or_auth_failed") EXCEPT !.ret = "END"]
        ELSE CASE outcome = "ok" -> Success(tried, app, "pyrogram")
               [] outcome = "SessionPasswordNeeded" ->
                    [Say(tried, "password_needed") EXCEPT
                       !.ret = "PYRO_2FA",
                       !.hs = [@ EXCEPT ![app].password_needed = TRUE]]
               [] OTHER ->
                    \* PhoneCodeInvalid, PhoneCodeExpired and the rest: line 540
                    [Say(safe_disconnect(tried, app, TRUE, dfail),
                         "otp_or_auth_failed") EXCEPT !.ret = "END"]

\* pyro_2fa
pyro_2fa(ud, hs, outcome, dfail) ==
    LET app == ud.pyro_client
        tried == Res("PYRO_2FA", << >>, ud, hs, {"check_password"})
    IN  IF app = 0
        THEN Res("END", <<"session_expired">>, ud, hs, {})
        ELSE IF outcome = "ok"
        THEN Success(tried, app, "pyrogram")
        ELSE [Say(safe_disconnect(tried, app, TRUE, dfail), "auth_failed")
                EXCEPT !.ret = "END"]

\* list_and_revoke_sessions
list_and_revoke_sessions(ud, hs, outcome, dfail) ==
    LET client == ud.client
        asked == Res("END", << >>, ud, hs, {"get_authorizations"})
    IN  IF client = 0
        THEN Res("END", <<"session_expired">>, ud, hs, {})
        ELSE CASE outcome = "empty" ->
                    safe_disconnect(Say(asked, "no_sessions"), client, FALSE, FALSE)
               [] outcome = "some" ->
                    [Say(asked, "session_menu") EXCEPT !.ret = "REVOKE_CONFIRM"]
               [] OTHER ->
                    Say(safe_disconnect(asked, client, TRUE, dfail), "list_failed")

\* confirm_revoke
confirm_revoke(ud, hs, data, outcome, dfail) ==
    LET client == ud.client
        kept == Res("END", << >>, ud, hs, {})
    IN  IF data = "cancel_revoke"
        THEN Say(IF client # 0 THEN safe_disconnect(kept, client, FALSE, FALSE)
                 ELSE kept, "revoke_cancelled")
        ELSE IF data = "revoke_hash"
        THEN IF client = 0
             THEN Say(kept, "session_expired")
             ELSE LET asked == [kept EXCEPT !.calls = {"reset_authorization"}]
                  IN  safe_disconnect(
                          Say(asked, IF outcome = "ok" THEN "revoked"
                                     ELSE "revoke_failed"),
                          client, FALSE, FALSE)
        ELSE \* neither branch: the handler returns None, the state stays
             [kept EXCEPT !.ret = "None"]

\* cancel disconnecting the clients of every user
cancel_everyone(ud, hs) ==
    [Say(Res("END", << >>, ud,
             [h \in 1..Len(hs) |-> [hs[h] EXCEPT !.disconnects = @ + 1]],
             {"disconnect"}),
         "cancelled") EXCEPT !.ud = EmptyData]

\* cancel
cancel(ud, hs) ==
    LET r0 == Res("END", << >>, ud, hs, {})
        r1 == IF ud.client # 0
              THEN safe_disconnect(r0, ud.client, FALSE, FALSE) ELSE r0
        r2 == IF ud.pyro_client # 0
              THEN safe_disconnect(r1, ud.pyro_client, FALSE, FALSE) ELSE r1
    IN  [Say(r2, "cancelled") EXCEPT !.ud = EmptyData]

\* rate_limit_check, called with the fake update of the start_*_flow
\* functions. Its message object is an instance of a class whose reply_text
\* is a function of one parameter (lines 260-263, 426-429): the call
\* update.message.reply_text(text) of line 172 binds the instance to that
\* parameter and passes the text as a second argument, which raises
\* TypeError before anything is sent.
rate_limit_check(u, rc, rds, mem, t, rfail, wfail) ==
    LET r == increment_attempts(u, rc, rds, mem, t, rfail, wfail)
    IN  [allowed |-> r.ret, raised |-> ~r.ret, msgs |-> << >>,
         redis |-> r.redis, mem |-> r.mem]

\* start_telethon_flow / start_pyrogram_flow entered although the check
\* said no
start_flow_nogate(u, rc, rds, mem, t, rfail, wfail, state) ==
    LET g == rate_limit_check(u, rc, rds, mem, t, rfail, wfail)
    IN  [ret |-> state, msgs |-> <<"enter_api_id">>, raised |-> FALSE,
         redis |-> g.redis, mem |-> g.mem,
         gate |-> IF g.allowed THEN "allowed" ELSE "denied"]

\* start_telethon_flow (state = API_ID) and start_pyrogram_flow
\* (state = PYRO_API_ID), which differ in the state and the prompt only
start_flow(u, rc, rds, mem, t, rfail, wfail, state) ==
    LET g == rate_limit_check(u, rc, rds, mem, t, rfail, wfail)
    IN  IF g.raised
        THEN [ret |-> "None", msgs |-> g.msgs, raised |-> TRUE,
              redis |-> g.redis, mem |-> g.mem, gate |-> "denied"]
        ELSE IF ~g.allowed
        THEN [ret |-> "END", msgs |-> g.msgs, raised |-> FALSE,
              redis |-> g.redis, mem |-> g.mem, gate |-> "denied"]
        ELSE [ret |-> state, msgs |-> <<"enter_api_id">>, raised |-> FALSE,
              redis |-> g.redis, mem |-> g.mem, gate |-> "allowed"]

\* start_revoke_flow: the prompt and API_ID, with no rate_limit_check
start_revoke_flow(rds, mem) ==
    [ret |-> "API_ID", msgs |-> <<"revoke_intro">>, raised |-> FALSE,
     redis |-> rds, mem |-> mem, gate |-> "none"]

\* --------------------------------------------------------------- routing
\* ConversationHandler: an update goes to the first handler of the group
\* that accepts it. A conversation that has not begun (END) accepts its
\* entry point only; one that has begun accepts what the handlers of its
\* state and its fallbacks accept.

FirstConv(S) ==
    IF S = {} THEN "none"
    ELSE ConvOrder[CHOOSE i \in 1..Len(ConvOrder) :
                     /\ ConvOrder[i] \in S
                     /\ \A j \in 1..(i - 1) : ConvOrder[j] \notin S]

\* a text message that is no command: MessageHandler(TEXT & ~COMMAND) of
\* every state but REVOKE_CONFIRM
TextConv(u) ==
    FirstConv({c \in Convs : conv[u][c] \notin {"END", "REVOKE_CONFIRM"}})

\* /cancel: the fallback of every conversation that has begun
CancelConv(u) == FirstConv({c \in Convs : conv[u][c] # "END"})

\* a button press: the entry point whose pattern matches the data, or the
\* CallbackQueryHandler of REVOKE_CONFIRM, which has no pattern
PressConv(u, data) ==
    FirstConv({c \in Convs :
                 \/ conv[u][c] = "END" /\ data = c
                 \/ conv[u][c] = "REVOKE_CONFIRM"})

\* the state a conversation is left in: a handler that raises or returns
\* None leaves it where it was
NextState(old, r) == IF r.raised \/ r.ret = "None" THEN old ELSE r.ret

\* the requests a handler makes to Telegram through a client
BackendCalls ==
    {"connect", "send_code", "sign_in", "check_password",
     "get_authorizations", "reset_authorization"}

\* what a handler was given: the verdict of its validator on the text (or
\* the data of the button), and what the backend answers if it is asked
Ev(input, outcome) == [input |-> input, outcome |-> outcome]
TextIn(valid) == IF valid THEN "valid" ELSE "invalid"

\* the turn of a state handler of conversation c (MaxTurns bounds the
\* turns of the state handlers; entries are bounded by the rate limiter and
\* cancellations by the entries)
Apply(u, c, handler, r, ev) ==
    /\ conv' = [conv EXCEPT ![u][c] = NextState(@, r)]
    /\ user_data' = [user_data EXCEPT ![u] = r.ud]
    /\ handles' = [h \in 1..Len(r.hs) |->
                     IF h > Len(handles)
                     THEN [r.hs[h] EXCEPT !.gate = gate[u][c]] ELSE r.hs[h]]
    /\ turn' = [u |-> u, conv |-> c, handler |-> handler, ret |-> r.ret,
                msgs |-> r.msgs, calls |-> r.calls, raised |-> r.raised,
                created |-> IF Len(r.hs) > Len(handles) THEN Len(r.hs) ELSE 0,
                gate |-> "none", from |-> conv[u][c], input |-> ev.input,
                outcome |-> IF r.calls \cap BackendCalls # {}
                            THEN ev.outcome ELSE "none",
                kept |-> r.ud = user_data[u] /\ r.hs = handles]
    /\ handler # "cancel" => turns < MaxTurns
    /\ turns' = IF handler = "cancel" THEN turns ELSE turns + 1
    /\ UNCHANGED <<storeVars, rateHist, workerVars, gate, menuVars, pureVars>>

\* the turn of an entry point of conversation c
Enter(u, c, handler, e) ==
    /\ conv' = [conv EXCEPT ![u][c] = NextState(@, e)]
    /\ redis' = e.redis
    /\ rate_limit_storage' = e.mem
    /\ gate' = [gate EXCEPT ![u][c] = e.gate]
    /\ turn' = [u |-> u, conv |-> c, handler |-> handler, ret |-> e.ret,
                msgs |-> e.msgs, calls |-> {}, raised |-> e.raised,
                created |-> 0, gate |-> e.gate, from |-> conv[u][c],
                input |-> "none", outcome |-> "none", kept |-> TRUE]
    /\ UNCHANGED <<now, redis_client, rateHist, workerVars, user_data, handles, turns>>
    /\ UNCHANGED <<menuVars, pureVars>>

\* ---------------------------------------------------------------- actions

StartTelethon(u) ==
    /\ PressConv(u, "telethon") = "telethon"
    /\ Enter(u, "telethon", "start_telethon_flow",
             start_flow(u, redis_client, redis, rate_limit_storage, now,
                        FALSE, FALSE, "API_ID"))

StartPyrogram(u) ==
    /\ PressConv(u, "pyrogram") = "pyrogram"
    /\ Enter(u, "pyrogram", "start_pyrogram_flow",
             start_flow(u, redis_client, redis, rate_limit_storage, now,
                        FALSE, FALSE, "PYRO_API_ID"))

StartRevoke(u) ==
    /\ PressConv(u, "revoke") = "revoke"
    /\ conv[u]["revoke"] = "END"
    /\ Enter(u, "revoke", "start_revoke_flow",
             start_revoke_flow(redis, rate_limit_storage))

\* telethon_api_id handed the text whatever the state of the conversation
TelethonApiId_anystate(u, valid) ==
    Apply(u, "telethon", "telethon_api_id",
          telethon_api_id(user_data[u], handles, valid),
          Ev(TextIn(valid), "none"))

TelethonApiId(u, valid) ==
    LET c == TextConv(u) IN
    /\ c \in {"telethon", "revoke"}
    /\ conv[u][c] = "API_ID"
    /\ Apply(u, c, "telethon_api_id", telethon_api_id(user_data[u], handles, valid),
             Ev(TextIn(valid), "none"))

TelethonApiHash(u, valid) ==
    LET c == TextConv(u) IN
    /\ c \in {"telethon", "revoke"}
    /\ conv[u][c] = "API_HASH"
    /\ Apply(u, c, "telethon_api_hash",
             telethon_api_hash(user_data[u], handles, valid),
             Ev(TextIn(valid), "none"))

TelethonPhone(u, valid, outcome, dfail) ==
    LET c == TextConv(u) IN
    /\ c \in {"telethon", "revoke"}
    /\ conv[u][c] = "TELETHON_PHONE"
    /\ Len(handles) < MaxHandles
    /\ Apply(u, c, "telethon_phone",
             telethon_phone(u, c, user_data[u], handles, valid, outcome, dfail),
             Ev(TextIn(valid), outcome))

TelethonOtp(u, valid, outcome, dfail) ==
    /\ TextConv(u) = "telethon"
    /\ conv[u]["telethon"] = "TELETHON_OTP"
    /\ outcome \in Answers(handles, user_data[u].client, SignInOutcomes)
    /\ Apply(u, "telethon", "telethon_otp",
             telethon_otp(user_data[u], handles, valid, outcome, dfail),
             Ev(TextIn(valid), outcome))

Telethon2fa(u, outcome, dfail) ==
    /\ TextConv(u) = "telethon"
    /\ conv[u]["telethon"] = "TELETHON_2FA"
    /\ outcome \in Answers(handles, user_data[u].client, PasswordOutcomes)
    /\ Apply(u, "telethon", "telethon_2fa",
             telethon_2fa(user_data[u], handles, outcome, dfail),
             Ev("none", outcome))

PyroApiId(u, valid) ==
    /\ TextConv(u) = "pyrogram"
    /\ conv[u]["pyrogram"] = "PYRO_API_ID"
    /\ Apply(u, "pyrogram", "pyro_api_id", pyro_api_id(user_data[u], handles, valid),
             Ev(TextIn(valid), "none"))

PyroApiHash(u, valid) ==
    /\ TextConv(u) = "pyrogram"
    /\ conv[u]["pyrogram"] = "PYRO_API_HASH"
    /\ Apply(u, "pyrogram", "pyro_api_hash",
             pyro_api_hash(user_data[u], handles, valid),
             Ev(TextIn(valid), "none"))

PyroPhone(u, valid, outcome, dfail) ==
    /\ TextConv(u) = "pyrogram"
    /\ conv[u]["pyrogram"] = "PYRO_PHONE"
    /\ Len(handles) < MaxHandles
    /\ Apply(u, "pyrogram", "pyro_phone",
             pyro_phone(u, "pyrogram", user_data[u], handles, valid, outcome, dfail),
             Ev(TextIn(valid), outcome))

PyroOtp(u, valid, outcome, dfail) ==
    /\ TextConv(u) = "pyrogram"
    /\ conv[u]["pyrogram"] = "PYRO_OTP"
    /\ outcome \in Answers(handles, user_data[u].pyro_client, SignInOutcomes)
    /\ Apply(u, "pyrogram", "pyro_otp",
             pyro_otp(user_data[u], handles, valid, outcome, dfail),
             Ev(TextIn(valid), outcome))

Pyro2fa(u, outcome, dfail) ==
    /\ TextConv(u) = "pyrogram"
    /\ conv[u]["pyrogram"] = "PYRO_2FA"
    /\ outcome \in Answers(handles, user_data[u].pyro_client, PasswordOutcomes)
    /\ Apply(u, "pyrogram", "pyro_2fa",
             pyro_2fa(user_data[u], handles, outcome, dfail),
             Ev("none", outcome))

ListAndRevoke(u, outcome, dfail) ==
    /\ TextConv(u) = "revoke"
    /\ conv[u]["revoke"] = "TELETHON_OTP"
    /\ outcome \in Answers(handles, user_data[u].client, ListOutcomes)
    /\ Apply(u, "revoke", "list_and_revoke_sessions",
             list_and_revoke_sessions(user_data[u], handles, outcome, dfail),
             Ev("none", outcome))

ConfirmRevoke(u, data, outcome, dfail) ==
    /\ PressConv(u, data) = "revoke"
    /\ conv[u]["revoke"] = "REVOKE_CONFIRM"
    /\ outcome \in Answers(handles, user_data[u].client, RevokeOutcomes)
    /\ Apply(u, "revoke", "confirm_revoke",
             confirm_revoke(user_data[u], handles, data, outcome, dfail),
             Ev(data, outcome))

Cancel(u) ==
    LET c == CancelConv(u) IN
    /\ c # "none"
    /\ Apply(u, c, "cancel", cancel(user_data[u], handles), Ev("none", "none"))

\* a text message that no handler accepts: no conversation of the user is
\* in a state with a MessageHandler, and the handlers outside the
\* conversations are CommandHandlers and a CallbackQueryHandler
DropText(u) ==
    /\ TextConv(u) = "none"
    /\ turn' = [NoTurn EXCEPT !.u = u, !.handler = "unhandled", !.input = "text"]
    /\ UNCHANGED <<conv, user_data, handles, gate, turns>>
    /\ UNCHANGED <<storeVars, rateHist, workerVars, menuVars, pureVars>>

Init ==
    /\ StoreInit
    /\ redis_client = FALSE
    /\ RateHistInit
    /\ WorkersIdle
    /\ FlowsIdle
    /\ MenuIdle
    /\ PureIdle

\* (the flows are followed within one window of the rate limiter; the
\* passing of the window is followed in SpecRate)
Next ==
    \/ \E u \in FlowUsers :
          \/ StartTelethon(u)
          \/ StartPyrogram(u)
          \/ StartRevoke(u)
    \/ \E u \in FlowUsers, valid \in BOOLEAN :
          \/ TelethonApiId(u, valid)
          \/ TelethonApiHash(u, valid)
          \/ PyroApiId(u, valid)
          \/ PyroApiHash(u, valid)
    \/ \E u \in FlowUsers, valid \in BOOLEAN, outcome \in SendCodeOutcomes,
          dfail \in BOOLEAN :
          \/ TelethonPhone(u, valid, outcome, dfail)
          \/ PyroPhone(u, valid, outcome, dfail)
    \/ \E u \in FlowUsers, valid \in BOOLEAN, outcome \in SignInOutcomes,
          dfail \in BOOLEAN :
          \/ TelethonOtp(u, valid, outcome, dfail)
          \/ PyroOtp(u, valid, outcome, dfail)
    \/ \E u \in FlowUsers, outcome \in PasswordOutcomes, dfail \in BOOLEAN :
          \/ Telethon2fa(u, outcome, dfail)
          \/ Pyro2fa(u, outcome, dfail)
    \/ \E u \in FlowUsers, outcome \in ListOutcomes, dfail \in BOOLEAN :
          ListAndRevoke(u, outcome, dfail)
    \/ \E u \in FlowUsers, data \in Buttons, outcome \in RevokeOutcomes,
          dfail \in BOOLEAN :
          ConfirmRevoke(u, data, outcome, dfail)
    \/ \E u \in FlowUsers : Cancel(u)
    \/ \E u \in FlowUsers : DropText(u)

Spec == Init /\ [][Next]_vars

\* -------------------------------------------------------- claims on flows

\* the flow that created client h is over
FlowOver(h) == conv[handles[h].owner][handles[h].conv] = "END"

\* C1 (as claimed): in no reachable state is a flow in Terminal while a
\* client created in it has never been disconnected. (Stated for the clients
\* whose connect() succeeded, the ones that hold a live connection.)
C1_TerminalReleased ==
    \A h \in 1..Len(handles) :
      (FlowOver(h) /\ handles[h].connected) => handles[h].disconnects > 0

\* C2 (as claimed): every client created is disconnected exactly once:
\* never twice, and not zero times once its flow is over.
C2_ReleasedExactlyOnce ==
    \A h \in 1..Len(handles) :
      /\ handles[h].disconnects <= 1
      /\ FlowOver(h) => handles[h].disconnects = 1

\* C5 (as claimed): an entry press denied by the rate limiter sends the
\* rate-limit warning and nothing else, returns END and does not raise.
C5_DeniedEntryWarnsAndEnds ==
    (turn.handler \in {"start_telethon_flow", "start_pyrogram_flow"}
       /\ turn.gate = "denied") =>
       /\ ~turn.raised
       /\ turn.ret = "END"
       /\ turn.msgs = <<"rate_limited">>

\* C6 (as claimed): a conversation of any of the three flows has begun only
\* through an entry at which the rate limiter was called and allowed the
\* attempt.
C6_EveryEntryGated ==
    \A u \in Users, c \in Convs :
      conv[u][c] # "END" => gate[u][c] = "allowed"

\* C7: in a flow whose entry the rate limiter denied the conversation does
\* not begin, no client is created and no backend call is made.
C7_DeniedFlowNoBackend ==
    /\ \A u \in Users, c \in Convs :
         gate[u][c] = "denied" => conv[u][c] = "END"
    /\ \A h \in 1..Len(handles) : handles[h].gate # "denied"
    /\ (turn.conv \in Convs /\ gate[turn.u][turn.conv] = "denied") =>
         turn.calls = {} /\ turn.created = 0

\* C7 witness: the last entry of the Telethon flow was denied, while a
\* client created before, in a flow that was allowed, is on record.
C7_Witness ==
    /\ gate[1]["telethon"] = "denied"
    /\ turn.handler = "start_telethon_flow"
    /\ turn.gate = "denied"
    /\ Len(handles) > 0

\* the handlers of the generation flows that validate the text they get
ValidatingHandlers ==
    {"telethon_api_id", "telethon_api_hash", "telethon_phone", "telethon_otp",
     "pyro_api_id", "pyro_api_hash", "pyro_phone", "pyro_otp"}

\* the turn on record is one of a generation flow whose text fails validation
InvalidTextTurn ==
    /\ turn.conv \in {"telethon", "pyrogram"}
    /\ turn.handler \in ValidatingHandlers
    /\ turn.input = "invalid"

TurnClient ==
    IF turn.conv = "pyrogram" THEN user_data[turn.u].pyro_client
    ELSE user_data[turn.u].client

\* C12: for both backends, a code that the backend accepts on an account
\* with two-factor enabled leaves the conversation awaiting the password,
\* the client in the context, connected and never disconnected; a password
\* that the backend then accepts ends the flow with the message that carries
\* the session string.
C12_TwoFactorPath ==
    /\ (turn.handler \in {"telethon_otp", "pyro_otp"}
          /\ turn.outcome = "SessionPasswordNeeded") =>
         /\ turn.ret = (IF turn.conv = "pyrogram" THEN "PYRO_2FA"
                        ELSE "TELETHON_2FA")
         /\ conv[turn.u][turn.conv] = turn.ret
         /\ TurnClient # 0
         /\ handles[TurnClient].connected
         /\ handles[TurnClient].disconnects = 0
    /\ (turn.handler \in {"telethon_2fa", "pyro_2fa"} /\ turn.outcome = "ok") =>
         /\ turn.from \in {"TELETHON_2FA", "PYRO_2FA"}
         /\ turn.ret = "END"
         /\ conv[turn.u][turn.conv] = "END"
         /\ turn.msgs = << IF turn.conv = "pyrogram" THEN "session_pyrogram"
                           ELSE "session_telethon" >>

\* C12 witness: the password has just been accepted in the Telethon flow,
\* on the client that the code step left signed in to the password step.
C12_Witness ==
    /\ turn.handler = "telethon_2fa"
    /\ turn.outcome = "ok"
    /\ turn.from = "TELETHON_2FA"
    /\ turn.ret = "END"
    /\ TurnClient # 0
    /\ handles[TurnClient].signed_in

\* C13 (as claimed): for both backends, a code that the backend rejects as
\* invalid leaves the conversation awaiting the code with the client not
\* disconnected, and of the answers of the backend only an accepted code,
\* an expired code or an unexpected failure end the flow from that state.
C13_InvalidCodeStays ==
    (turn.handler \in {"telethon_otp", "pyro_otp"} /\ turn.outcome # "none") =>
       /\ turn.outcome = "PhoneCodeInvalid" =>
            /\ turn.ret = turn.from
            /\ conv[turn.u][turn.conv] = turn.from
            /\ TurnClient # 0
            /\ handles[TurnClient].disconnects = 0
       /\ turn.ret = "END" =>
            turn.outcome \in {"ok", "PhoneCodeExpired", "Unexpected"}

\* the last message the turn on record sent
LastMsg == IF turn.msgs = << >> THEN "none" ELSE turn.msgs[Len(turn.msgs)]

\* C14 (as claimed): for both backends, when the request of the login code
\* fails in the phone step, an invalid phone number keeps the conversation
\* in that step with a re-prompt, and invalid credentials, a migrated account
\* and a flood wait each end the flow with the message of that error.
C14_SendCodeFailures ==
    (turn.handler \in {"telethon_phone", "pyro_phone"}) =>
       /\ turn.outcome = "PhoneNumberInvalid" =>
            /\ turn.ret = turn.from
            /\ conv[turn.u][turn.conv] = turn.from
            /\ LastMsg = "phone_rejected"
       /\ turn.outcome = "ApiIdInvalid" =>
            turn.ret = "END" /\ LastMsg = "invalid_credentials"
       /\ turn.outcome = "PhoneMigrate" =>
            turn.ret = "END" /\ LastMsg = "migrated"
       /\ turn.outcome = "FloodWait" =>
            turn.ret = "END" /\ LastMsg = "flood_wait"

\* the fixed texts the handlers send when they catch an exception they do
\* not name (lines 340, 386, 417, 499, 542, 573, 636, 667), and the warning
\* of safe_disconnect (line 189); none of them quotes the exception
GenericMsgs ==
    {"unexpected_error", "auth_failed", "otp_or_auth_failed", "list_failed",
     "revoke_failed", "cleanup_warning"}

\* C15 (as claimed): no turn of an entry point or of a state handler lets an
\* exception out of the handler, and a turn in which the backend fails with
\* an exception the handler does not name ends the flow and sends nothing
\* but the fixed generic texts.
C15_UnexpectedContained ==
    turn.u # 0 =>
       /\ ~turn.raised
       /\ turn.outcome = "Unexpected" =>
            /\ turn.ret = "END"
            /\ turn.msgs # << >>
            /\ \A i \in 1..Len(turn.msgs) : turn.msgs[i] \in GenericMsgs

\* client h holds a connection that was never closed
Live(h) == handles[h].connected /\ handles[h].disconnects = 0

C17_TerminalContextEmpty ==
    \A u \in Users :
      (\A c \in Convs : conv[u][c] = "END") => user_data[u] = EmptyData

\* C18 (as claimed): in the revocation flow the list of authorizations is
\* requested, and the selection state is reached, only on a client on which
\* a sign-in with the code of the user has succeeded.
C18_ListAfterSignIn ==
    ("get_authorizations" \in turn.calls \/ turn.ret = "REVOKE_CONFIRM") =>
       /\ TurnClient # 0
       /\ handles[TurnClient].signed_in

\* ============================================================== SpecMenu
\* The menu that list_and_revoke_sessions builds (lines 613-631) from the
\* list the backend returns, for every list of up to MaxAuths entries. An
\* entry is [hash, current]; a line of the text is the entry it shows; a
\* button of the keyboard is its callback data, "revoke_<hash>" kept as
\* [data |-> "revoke", hash |-> h], or "cancel_revoke".

Min(a, b) == IF a < b THEN a ELSE b

\* result.authorizations
AuthLists ==
    UNION {{[i \in 1..n |-> [hash |-> i, current |-> f[i]]] :
              f \in [1..n -> BOOLEAN]} : n \in 0..MaxAuths}

CancelButton == [data |-> "cancel_revoke", hash |-> 0]
RevokeButton(auth) == [data |-> "revoke", hash |-> auth.hash]

RECURSIVE Keyboard(_)
\* the loop of lines 616-626: a button for each entry that is not current
Keyboard(auths) ==
    IF auths = << >> THEN << >>
    ELSE (IF Head(auths).current THEN << >> ELSE <<RevokeButton(Head(auths))>>)
         \o Keyboard(Tail(auths))

\* the menu with no limit on the entries
session_menu_nolimit(auths) ==
    IF auths = << >> THEN NoMenu
    ELSE [shown |-> TRUE, lines |-> auths,
          keyboard |-> Append(Keyboard(auths), CancelButton)]

\* the text and the keyboard sent at line 631; nothing for an empty list
\* (lines 608-611)
session_menu(auths) ==
    IF auths = << >> THEN NoMenu
    ELSE LET first == SubSeq(auths, 1, Min(MenuLimit, Len(auths)))
         IN  [shown |-> TRUE, lines |-> first,
              keyboard |-> Append(Keyboard(first), CancelButton)]

MenuInit ==
    /\ StoreInit
    /\ redis_client = FALSE
    /\ RateHistInit
    /\ WorkersIdle
    /\ FlowsIdle
    /\ authorizations \in AuthLists
    /\ menu = NoMenu
    /\ PureIdle

\* list_and_revoke_sessions has the answer of the backend and replies
BuildMenu ==
    /\ ~menu.shown
    /\ menu' = session_menu(authorizations)
    /\ UNCHANGED <<authorizations, storeVars, rateHist, workerVars, flowVars, pureVars>>

MenuNext == BuildMenu

SpecMenu == MenuInit /\ [][MenuNext]_vars

\* the first entries of the list, MenuLimit at most
FirstEntries == 1..Min(MenuLimit, Len(authorizations))

\* C19: the menu that is sent lists the first 10 entries of the list at
\* most, in their order; its keyboard has a revoke button for each of these
\* entries that is not the current session and for nothing else, and ends
\* with the cancel button.
C19_MenuOfFirstTen ==
    menu.shown =>
       /\ Len(menu.lines) <= MenuLimit
       /\ menu.lines = [i \in FirstEntries |-> authorizations[i]]
       /\ {b.hash : b \in {menu.keyboard[k] : k \in 1..(Len(menu.keyboard) - 1)}}
            = {authorizations[i].hash :
                 i \in {j \in FirstEntries : ~authorizations[j].current}}
       /\ \A k \in 1..(Len(menu.keyboard) - 1) :
            menu.keyboard[k].data = "revoke"
       /\ Len(menu.keyboard) =
            1 + Cardinality({j \in FirstEntries : ~authorizations[j].current})
       /\ menu.keyboard[Len(menu.keyboard)] = CancelButton

\* C19 witness: a menu built from a list longer than the limit, with a
\* current session among the first entries and a revocable one cut off.
C19_Witness ==
    /\ menu.shown
    /\ Len(authorizations) > MenuLimit
    /\ \E i \in FirstEntries : authorizations[i].current
    /\ \E i \in FirstEntries : ~authorizations[i].current
    /\ ~authorizations[Len(authorizations)].current

\* C20 (as claimed): every button press that confirm_revoke handles ends
\* the flow: whatever the data of the button and whatever the backend
\* answers, something is reported to the user, the client in the context is
\* disconnected and the conversation is no longer awaiting the selection.
C20_PressAlwaysEnds ==
    turn.handler = "confirm_revoke" =>
       /\ turn.ret = "END"
       /\ conv[turn.u]["revoke"] = "END"
       /\ turn.msgs # << >>
       /\ TurnClient # 0 => "disconnect" \in turn.calls

\* the conversations of user u that have begun and not ended
Active(u) == {c \in Convs : conv[u][c] # "END"}

EntryHandlers ==
    {"start_telethon_flow", "start_pyrogram_flow", "start_revoke_flow"}

\* the handlers that take text messages, and the text that none takes
TextHandlers ==
    ValidatingHandlers \cup
    {"telethon_2fa", "pyro_2fa", "list_and_revoke_sessions", "unhandled"}

\* C22: while no flow of a user is under way, a text message of the user
\* changes no conversation state, writes nothing to any context, creates
\* or disconnects no client and makes no backend call; and a conversation
\* leaves Terminal only in the turn of an entry point.
C22_TerminalIgnoresText ==
    [][ \A u \in Users :
          /\ (Active(u) = {} /\ turn'.u = u /\ turn'.handler \in TextHandlers) =>
                /\ conv' = conv
                /\ user_data' = user_data
                /\ handles' = handles
                /\ turn'.calls = {}
          /\ \A c \in Convs :
                (conv[u][c] = "END" /\ conv'[u][c] # "END") =>
                   turn'.handler \in EntryHandlers ]_vars

\* C22 witness: a flow of the user has come and gone, leaving a client on
\* record, and a text message has then arrived with no flow under way.
C22_Witness ==
    /\ turn.handler = "unhandled"
    /\ Active(turn.u) = {}
    /\ handles # << >>
    /\ user_data[turn.u] # EmptyData

\* ============================================================== SpecPure
\* The functions of the bot that map one string to one result, each applied
\* to every string of a bounded set. A string is a sequence of characters;
\* a result records the value returned (ok) or the ValidationError raised.

Raise == [called |-> TRUE, ok |-> FALSE, val |-> "ValidationError"]
Return(v) == [called |-> TRUE, ok |-> TRUE, val |-> v]

DigitChars == <<"0", "1", "2", "3", "4", "5", "6", "7", "8", "9">>
IsDigit(c) == \E i \in 1..Len(DigitChars) : DigitChars[i] = c
DigitVal(c) == (CHOOSE i \in 1..Len(DigitChars) : DigitChars[i] = c) - 1
IsSpace(c) == c = " "
AllDigits(s) == \A i \in 1..Len(s) : IsDigit(s[i])

RECURSIVE LStrip(_)
LStrip(s) == IF s # << >> /\ IsSpace(Head(s)) THEN LStrip(Tail(s)) ELSE s

RECURSIVE RStrip(_)
RStrip(s) ==
    IF s # << >> /\ IsSpace(s[Len(s)]) THEN RStrip(SubSeq(s, 1, Len(s) - 1))
    ELSE s

\* str.strip()
Strip(s) == RStrip(LStrip(s))

RECURSIVE DecVal(_)
\* the number a sequence of digits denotes
DecVal(ds) ==
    IF ds = << >> THEN 0
    ELSE 10 * DecVal(SubSeq(ds, 1, Len(ds) - 1)) + DigitVal(ds[Len(ds)])

RECURSIVE NumLen(_)
\* len(str(n)) for n >= 0
NumLen(n) == IF n < 10 THEN 1 ELSE 1 + NumLen(n \div 10)

\* int(s) of Python 3: surrounding whitespace is dropped, one sign is
\* allowed, and the digits may be grouped with single underscores between
\* digits; anything else raises ValueError
ParseInt(s) ==
    LET t == Strip(s)
        signed == t # << >> /\ Head(t) \in {"+", "-"}
        body == IF signed THEN Tail(t) ELSE t
        wellformed ==
            /\ body # << >>
            /\ IsDigit(body[1])
            /\ IsDigit(body[Len(body)])
            /\ \A i \in 1..Len(body) : IsDigit(body[i]) \/ body[i] = "_"
            /\ \A i \in 1..(Len(body) - 1) : ~(body[i] = "_" /\ body[i + 1] = "_")
        mag == DecVal(SelectSeq(body, IsDigit))
    IN  IF ~wellformed THEN [ok |-> FALSE, val |-> 0]
        ELSE [ok |-> TRUE, val |-> IF signed /\ Head(t) = "-" THEN 0 - mag ELSE mag]

\* InputValidator.validate_api_id
validate_api_id(api_id_str) ==
    LET p == ParseInt(Strip(api_id_str))
    IN  IF ~p.ok THEN Raise
        ELSE IF p.val <= 0 \/ NumLen(p.val) < ApiIdMinDigits THEN Raise
        ELSE Return(p.val)

\* the strings given to validate_api_id: up to MaxIdLen digits, bare or
\* with a sign, a space, an underscore or a letter
Decorations ==
    {"none", "plus", "minus", "lspace", "rspace", "underscore", "letter"}

Decorate(b, d) ==
    CASE d = "plus" -> <<"+">> \o b
      [] d = "minus" -> <<"-">> \o b
      [] d = "lspace" -> <<" ">> \o b
      [] d = "rspace" -> b \o <<" ">>
      [] d = "underscore" ->
           IF Len(b) >= 2 THEN <<b[1], "_">> \o Tail(b) ELSE b \o <<"_">>
      [] d = "letter" -> b \o <<"a">>
      [] OTHER -> b

ApiIdInputs ==
    {Decorate(b, d) :
       b \in UNION {[1..n -> {"0", "1"}] : n \in 0..MaxIdLen}, d \in Decorations}

\* re.IGNORECASE over [a-f0-9]
IsHex(c) ==
    \/ IsDigit(c)
    \/ c \in {"a", "b", "c", "d", "e", "f"}
    \/ c \in {"A", "B", "C", "D", "E", "F"}

\* InputValidator.validate_api_hash
validate_api_hash(api_hash) ==
    LET t == Strip(api_hash)
    IN  IF Len(t) = HashLen /\ \A i \in 1..Len(t) : IsHex(t[i]) THEN Return(t)
        ELSE Raise

\* the strings given to validate_api_hash: HashLen characters, or up to
\* HashSlack fewer or more, of one or two kinds, bare or with a space
\* before or after
HashChars == {"a", "F", "0", "g"}

ApiHashInputs ==
    {pad[1] \o [i \in 1..n |-> IF i <= k THEN c1 ELSE c2] \o pad[2] :
       n \in (HashLen - HashSlack)..(HashLen + HashSlack),
       k \in 0..(HashLen + HashSlack),
       c1 \in HashChars, c2 \in HashChars,
       pad \in {<< << >>, << >> >>, << <<" ">>, << >> >>, << << >>, <<" ">> >>}}

\* [^\d+]
KeptInPhone(c) == IsDigit(c) \/ c = "+"

\* InputValidator.validate_phone_number
validate_phone_number(phone) ==
    LET t == SelectSeq(Strip(phone), KeptInPhone)
        plus == t # << >> /\ Head(t) = "+"
        body == IF plus THEN Tail(t) ELSE t
        matches ==
            /\ Len(body) >= 1 + PhoneMinTail
            /\ Len(body) <= 1 + PhoneMaxTail
            /\ AllDigits(body)
            /\ body[1] # "0"
    IN  IF ~matches THEN Raise
        ELSE IF plus THEN Return(t)
        ELSE Return(<<"+">> \o t)

\* the strings given to validate_phone_number: up to MaxPhoneDigits digits
\* after a lead, with or without one character after the first digit
PhoneInputs ==
    {lead \o <<first>> \o inner \o [i \in 1..n |-> "2"] :
       lead \in {<< >>, <<"+">>, <<" ", "+">>, <<"+", "+">>},
       first \in {"0", "1"},
       inner \in {<< >>, <<" ">>, <<"+">>, <<"-">>},
       n \in 0..(MaxPhoneDigits - 1)}
    \cup {<< >>, <<"+">>, <<"a">>}

\* validate_otp without the removal of the other characters
validate_otp_asis(otp) ==
    LET t == Strip(otp)
    IN  IF Len(t) = OtpLen /\ AllDigits(t) THEN Return(t) ELSE Raise

\* InputValidator.validate_otp
validate_otp(otp) ==
    LET t == SelectSeq(Strip(otp), IsDigit)
    IN  IF Len(t) = OtpLen /\ AllDigits(t) THEN Return(t) ELSE Raise

\* the strings given to validate_otp
OtpInputs == UNION {[1..n -> {"1", "2", " ", "a"}] : n \in 0..MaxOtpLen}

\* the text telethon_otp, telethon_2fa, pyro_otp and pyro_2fa send on
\* success: an f-string with {session} between backquotes
success_message(session) ==
    Return(<<"Session Generated Successfully!", "backquote">> \o session
             \o <<"backquote", "Security Warning", "Keep this session string private">>)

\* the session strings exported by the backend
SessionStrings == UNION {[1..n -> {"A", "B"}] : n \in 1..MaxSessionLen}

PureInputs(f) ==
    CASE f = "validate_api_id" -> ApiIdInputs
      [] f = "validate_api_hash" -> ApiHashInputs
      [] f = "validate_phone_number" -> PhoneInputs
      [] f = "validate_otp" -> OtpInputs
      [] f = "success_message" -> SessionStrings

PureFunctions ==
    {"validate_api_id", "validate_api_hash", "validate_phone_number",
     "validate_otp", "success_message"}

PureInit ==
    /\ StoreInit
    /\ redis_client = FALSE
    /\ RateHistInit
    /\ WorkersIdle
    /\ FlowsIdle
    /\ MenuIdle
    /\ fn \in PureFunctions
    /\ arg \in PureInputs(fn)
    /\ out = NoOut

\* the call f(arg) with result r
Call(f, r) ==
    /\ fn = f
    /\ ~out.called
    /\ out' = r
    /\ UNCHANGED <<fn, arg, storeVars, rateHist, workerVars, flowVars, menuVars>>

ValidateApiId == Call("validate_api_id", validate_api_id(arg))

ValidateApiHash == Call("validate_api_hash", validate_api_hash(arg))

ValidatePhoneNumber == Call("validate_phone_number", validate_phone_number(arg))

ValidateOtp == Call("validate_otp", validate_otp(arg))

SuccessMessage == Call("success_message", success_message(arg))

PureNext ==
    \/ ValidateApiId
    \/ ValidateApiHash
    \/ ValidatePhoneNumber
    \/ ValidateOtp
    \/ SuccessMessage

SpecPure == PureInit /\ [][PureNext]_vars

\* the result of f is on record
Called(f) == fn = f /\ out.called

\* C24 (as claimed): validate_api_id returns n exactly when the string,
\* with surrounding whitespace stripped, is made of decimal digits only and
\* denotes a positive integer n of at least 6 digits; on every other string
\* it raises ValidationError.
C24_ApiIdDigitsOnly ==
    Called("validate_api_id") =>
       LET t == Strip(arg)
           accepted == /\ t # << >>
                       /\ AllDigits(t)
                       /\ DecVal(t) > 0
                       /\ NumLen(DecVal(t)) >= ApiIdMinDigits
       IN  /\ out.ok <=> accepted
           /\ out.ok => out.val = DecVal(t)
           /\ ~out.ok => out.val = "ValidationError"

\* str.lower() on the characters of a hash
Lower(c) ==
    CASE c = "A" -> "a" [] c = "B" -> "b" [] c = "C" -> "c"
      [] c = "D" -> "d" [] c = "E" -> "e" [] c = "F" -> "f"
      [] OTHER -> c

\* C25 (as claimed): validate_api_hash returns the trimmed, lowercase form
\* of every string whose trimmed form is 32 hexadecimal characters of
\* either case, and raises ValidationError on every other string.
C25_ApiHashLowercased ==
    Called("validate_api_hash") =>
       LET t == Strip(arg)
           accepted == Len(t) = HashLen /\ \A i \in 1..Len(t) : IsHex(t[i])
       IN  /\ out.ok <=> accepted
           /\ out.ok => out.val = [i \in 1..Len(t) |-> Lower(t[i])]
           /\ ~out.ok => out.val = "ValidationError"

\* C26 (as claimed): validate_phone_number keeps the digits and a leading
\* '+' only, succeeds exactly when 1 to 15 digits remain of which the first
\* is 1-9, and then returns '+' followed by those digits.
C26_PhoneOneToFifteenDigits ==
    Called("validate_phone_number") =>
       LET d == SelectSeq(arg, IsDigit)
           accepted == /\ Len(d) >= 1
                       /\ Len(d) <= 1 + PhoneMaxTail
                       /\ d[1] # "0"
       IN  /\ out.ok <=> accepted
           /\ out.ok => out.val = <<"+">> \o d
           /\ ~out.ok => out.val = "ValidationError"

\* C27: validate_otp removes every character that is not a digit and
\* returns the digits left exactly when five are left; with any other
\* number of digits it raises ValidationError.
C27_OtpFiveDigits ==
    Called("validate_otp") =>
       LET d == SelectSeq(arg, IsDigit)
       IN  /\ out.ok <=> Len(d) = OtpLen
           /\ out.ok => out.val = d
           /\ ~out.ok => out.val = "ValidationError"

\* "12 121" gives "12121"
C27_Witness ==
    /\ Called("validate_otp")
    /\ arg = <<"1", "2", " ", "1", "2", "1">>
    /\ out.ok
    /\ out.val = <<"1", "2", "1", "2", "1">>

\* s occurs in text as a run of consecutive characters
Contains(text, s) ==
    \E i \in 0..(Len(text) - Len(s)) : SubSeq(text, i + 1, i + Len(s)) = s

\* C23 (as claimed): the message sent on success does not hold the whole
\* session string.
C23_SessionNotInFull ==
    Called("success_message") => ~Contains(out.val, arg)

\* ============================================================== SpecMain
\* The handlers as main() registers them with the Application, all in one
\* group: an update goes to the first of them that accepts it, and to that
\* one only.

\* app.add_handler in the order of lines 743-749
Registered ==
    <<"start", "ping", "cancel", "button_handler",
      "telethon", "pyrogram", "revoke">>

\* check_update of a registered handler for an update of user u: a command
\* (data is its name), a callback query (data is the data of the button) or
\* a text message
Accepts(h, u, kind, data) ==
    IF h \in {"start", "ping", "cancel"} THEN kind = "command" /\ data = h
    ELSE IF h = "button_handler" THEN kind = "callback"
    ELSE CASE kind = "callback" -> PressConv(u, data) = h
           [] kind = "text" -> conv[u][h] \notin {"END", "REVOKE_CONFIRM"}
           [] OTHER -> data = "cancel" /\ conv[u][h] # "END"

Dispatch(u, kind, data) ==
    LET A == {i \in 1..Len(Registered) : Accepts(Registered[i], u, kind, data)}
    IN  IF A = {} THEN "none"
        ELSE Registered[CHOOSE i \in A : \A j \in A : i <= j]

\* the data of the buttons of the menus
MainData == {"telethon", "pyrogram", "revoke", "help", "cancel_revoke"}

\* button_handler: the start_*_flow function of the button, or the help
\* text; what it returns goes to the Application, which keeps no state
button_handler(u, data, rc, rds, mem, t) ==
    CASE data = "telethon" ->
           start_flow(u, rc, rds, mem, t, FALSE, FALSE, "API_ID")
      [] data = "pyrogram" ->
           start_flow(u, rc, rds, mem, t, FALSE, FALSE, "PYRO_API_ID")
      [] data = "revoke" -> start_revoke_flow(rds, mem)
      [] OTHER ->
           [ret |-> "None", msgs |-> IF data = "help" THEN <<"help">> ELSE << >>,
            raised |-> FALSE, redis |-> rds, mem |-> mem, gate |-> "none"]

\* a button press
MainPress(u, data) ==
    LET h == Dispatch(u, "callback", data)
        e == button_handler(u, data, redis_client, redis, rate_limit_storage, now)
    IN  IF h = "button_handler"
        THEN /\ redis' = e.redis
             /\ rate_limit_storage' = e.mem
             /\ turn' = [NoTurn EXCEPT !.u = u, !.handler = h, !.ret = e.ret,
                                       !.msgs = e.msgs, !.raised = e.raised,
                                       !.gate = e.gate, !.input = data]
             /\ UNCHANGED <<now, redis_client, rateHist, workerVars, conv,
                            user_data, handles, gate, turns, menuVars, pureVars>>
        ELSE \/ h = "telethon" /\ StartTelethon(u)
             \/ h = "pyrogram" /\ StartPyrogram(u)
             \/ h = "revoke" /\ StartRevoke(u)

\* /cancel
MainCancel(u) ==
    LET h == Dispatch(u, "command", "cancel")
        r == cancel(user_data[u], handles)
    IN  IF h = "cancel"
        THEN /\ user_data' = [user_data EXCEPT ![u] = r.ud]
             /\ handles' = r.hs
             /\ turn' = [NoTurn EXCEPT !.u = u, !.handler = h, !.ret = r.ret,
                                       !.msgs = r.msgs, !.calls = r.calls,
                                       !.input = "cancel"]
             /\ UNCHANGED <<storeVars, rateHist, workerVars, conv, gate, turns,
                            menuVars, pureVars>>
        ELSE h # "none" /\ Cancel(u)

\* /start and /ping
MainCommand(u, cmd) ==
    /\ Dispatch(u, "command", cmd) = cmd
    /\ turn' = [NoTurn EXCEPT !.u = u, !.handler = cmd, !.input = cmd,
                              !.msgs = IF cmd = "start" THEN <<"welcome">>
                                       ELSE <<"pong">>]
    /\ UNCHANGED <<conv, user_data, handles, gate, turns>>
    /\ UNCHANGED <<storeVars, rateHist, workerVars, menuVars, pureVars>>

\* a text message while no handler accepts one
MainText(u) ==
    /\ Dispatch(u, "text", "text") = "none"
    /\ DropText(u)

MainInit == Init

MainNext ==
    \/ \E u \in Users, data \in MainData : MainPress(u, data)
    \/ \E u \in Users : MainCancel(u)
    \/ \E u \in Users, cmd \in {"start", "ping"} : MainCommand(u, cmd)
    \/ \E u \in Users : MainText(u)

SpecMain == MainInit /\ [][MainNext]_vars

\* C28 (as claimed): under the registration order of main(), after the
\* press of 'telethon', 'pyrogram' or 'revoke' that passes the gate, the
\* conversation of that button is in its API-ID state and the next text
\* message of the user goes to it.
C28_PressEntersFlow ==
    ( /\ turn.input \in Convs
      /\ turn.ret \in {"API_ID", "PYRO_API_ID"}
      /\ ~turn.raised )
    => /\ conv[turn.u][turn.input] = turn.ret
       /\ Dispatch(turn.u, "text", "text") = turn.input

\* ============================================================= SpecUsers
\* The Telethon flow and /cancel with two users taking turns in any order.

UsersNext ==
    \/ \E u \in Users : StartTelethon(u)
    \/ \E u \in Users, valid \in BOOLEAN :
          \/ TelethonApiId(u, valid)
          \/ TelethonApiHash(u, valid)
    \/ \E u \in Users, valid \in BOOLEAN, outcome \in SendCodeOutcomes,
          dfail \in BOOLEAN : TelethonPhone(u, valid, outcome, dfail)
    \/ \E u \in Users, valid \in BOOLEAN, outcome \in SignInOutcomes,
          dfail \in BOOLEAN : TelethonOtp(u, valid, outcome, dfail)
    \/ \E u \in Users, outcome \in PasswordOutcomes, dfail \in BOOLEAN :
          Telethon2fa(u, outcome, dfail)
    \/ \E u \in Users : Cancel(u)

SpecUsers == Init /\ [][UsersNext]_vars

SessionSent ==
    \E i \in 1..Len(turn.msgs) :
       turn.msgs[i] \in {"session_telethon", "session_pyrogram"}

\* C30: a session string is exported and sent only in a turn in which the
\* sign-in with the code, or the password check after a sign-in that asked
\* for the password, succeeded, on a client of the same user and flow that
\* was connected, had its code request succeed and had not been
\* disconnected before.
C30_SessionOnlyAfterSignIn ==
    SessionSent =>
       /\ "export" \in turn.calls
       /\ turn.outcome = "ok"
       /\ TurnClient # 0
       /\ handles[TurnClient].owner = turn.u
       /\ handles[TurnClient].conv = turn.conv
       /\ handles[TurnClient].lib = turn.conv
       /\ handles[TurnClient].connected
       /\ handles[TurnClient].code_sent
       /\ handles[TurnClient].disconnects = 1
       /\ \/ /\ turn.from \in {"TELETHON_OTP", "PYRO_OTP"}
             /\ "sign_in" \in turn.calls
             /\ ~handles[TurnClient].password_needed
          \/ /\ turn.from \in {"TELETHON_2FA", "PYRO_2FA"}
             /\ "check_password" \in turn.calls
             /\ handles[TurnClient].password_needed

\* a session sent after the password check of the Pyrogram flow
C30_Witness ==
    /\ SessionSent
    /\ turn.conv = "pyrogram"
    /\ turn.from = "PYRO_2FA"
    /\ handles[TurnClient].password_needed

\* ------------------------------------- the rate limiter with a failing store

\* C31 (as claimed): with one worker and the external store failing at
\* will, at most 5 attempts of a user are allowed within one window (the
\* windows being those the attempts open, each RATE_LIMIT_WINDOW long).
C31_FivePerWindowUnderFaults ==
    \A u \in RateUsers :
      LET lg == log[u] IN
      \A s \in 1..Len(lg) :
        Cardinality({i \in 1..Len(lg) : lg[i].allowed /\ WinStart(lg, i) = s})
          <= MAX_ATTEMPTS_PER_HOUR

\* ----------------------------------------------- handlers without a client

\* the handlers of the states that await the code, the password and the
\* choice of a session to revoke
ClientHandlers ==
    {"telethon_otp", "telethon_2fa", "pyro_otp", "pyro_2fa",
     "list_and_revoke_sessions", "confirm_revoke"}

====
